---- MODULE Spec2Model ----
(***************************************************************************)
(* NYC Yellow Taxi dashboard (Streamlit): the source fetcher, the schema   *)
(* validator, the cleaning / feature-engineering pipeline and the cache    *)
(* layer of app.py, pages/1-Overview.py, pages/2-Visualizations.py and     *)
(* pages/2-Visualisations.py, and the sidebar filters of the two           *)
(* visualisation pages.                                                    *)
(*                                                                         *)
(* Values.  Timestamps are whole seconds counted from 2024-01-01 00:00:00. *)
(* Raw numeric cells are integers; a missing cell (NaN / NaT / None) is    *)
(* NULL.  Derived float columns (duration, speed, tip percentage) are      *)
(* exact fractions <<n, d>> in lowest terms, NaN being <<0, 0>>; the       *)
(* model does not round to IEEE doubles.                                   *)
(***************************************************************************)
EXTENDS Integers, Sequences, FiniteSets, TLC

VARIABLES
    remote,     \* content served at TRIP_URL
    fstate,     \* per local path: "absent", "partial" or "full"
    tripData,   \* content of TRIP_RAW when fstate.trip = "full"
    cleanData,  \* content of CLEAN_PATH when fstate.clean = "full"
    memo,       \* st.cache_data memo of load_data, per page
    zmemo,      \* st.cache_data memo of load_zones, per page
    pc,         \* per session: position in the page script
    page,       \* per session: the page being run
    tbl,        \* per session: the builder's local df
    ret,        \* per session: df, the object load_data returned
    ui,         \* per session: the sidebar widgets' values and filtered
    outcome,    \* per session: how the run ended, and the error raised
    netreq,     \* per remote source: number of requests.get calls
    builds,     \* number of _build_clean_dataset invocations
    alters      \* number of outside changes to the raw files

vars == <<remote, fstate, tripData, cleanData, memo, zmemo, pc, page, tbl,
          ret, ui, outcome, netreq, builds, alters>>

----------------------------------------------------------------------------
(* Bounds of the model *)

MaxRows == 2
MaxBuilds == 2
MaxReq == 2
MaxAlters == 1
NumSessions == 1
NumRacers == 2

----------------------------------------------------------------------------
(* Missing values and fractions *)

NULL == 0 - 1000000

NaN == <<0, 0>>

Abs(x) == IF x < 0 THEN 0 - x ELSE x

RECURSIVE GCD(_, _)
GCD(a, b) == IF b = 0 THEN a ELSE GCD(b, a % b)

\* the float n/d; division by zero gives +-inf (<<+-1, 0>>) or NaN
Rat(n, d) ==
    IF d = 0 THEN <<(IF n > 0 THEN 1 ELSE IF n < 0 THEN 0 - 1 ELSE 0), 0>>
    ELSE LET g == GCD(Abs(n), Abs(d))
             s == IF d < 0 THEN 0 - 1 ELSE 1
         IN  <<(s * n) \div g, (s * d) \div g>>

\* a raw cell as a float
ToFloat(v) == IF v = NULL THEN NaN ELSE <<v, 1>>

IsNaN(x) == x = NaN

FDiv(x, y) == IF IsNaN(x) \/ IsNaN(y) THEN NaN ELSE Rat(x[1] * y[2], x[2] * y[1])

FMul(x, y) == IF IsNaN(x) \/ IsNaN(y) THEN NaN ELSE Rat(x[1] * y[1], x[2] * y[2])

\* float comparisons: every comparison with NaN is False
FGt(x, y) == ~IsNaN(x) /\ ~IsNaN(y) /\ x[2] # 0 /\ y[2] # 0 /\ x[1] * y[2] > y[1] * x[2]

FGe(x, y) == ~IsNaN(x) /\ ~IsNaN(y) /\ x[2] # 0 /\ y[2] # 0 /\ x[1] * y[2] >= y[1] * x[2]

FLe(x, y) == FGe(y, x)

\* comparisons of raw cells: every comparison with a missing value is False
Gt(a, b) == a # NULL /\ b # NULL /\ a > b

Ge(a, b) == a # NULL /\ b # NULL /\ a >= b

Lt(a, b) == Gt(b, a)

Le(a, b) == Ge(b, a)

----------------------------------------------------------------------------
(* Columns *)

required_cols ==
    {"tpep_pickup_datetime", "tpep_dropoff_datetime", "PULocationID",
     "DOLocationID", "passenger_count", "trip_distance", "fare_amount",
     "tip_amount", "total_amount", "payment_type"}

optional_cols ==
    {"VendorID", "RatecodeID", "store_and_fwd_flag", "extra", "mta_tax",
     "tolls_amount", "improvement_surcharge", "congestion_surcharge",
     "airport_fee"}

needed == required_cols \cup optional_cols

derived_cols ==
    {"trip_duration_minutes", "pickup_hour", "pickup_day_of_week",
     "pickup_date", "trip_speed_mph", "tip_pct"}

dropna_subset ==
    {"tpep_pickup_datetime", "tpep_dropoff_datetime", "PULocationID",
     "DOLocationID", "fare_amount"}

\* the columns pages/2-Visualisations.py reads from the clean artifact
vis_required_columns ==
    {"tpep_pickup_datetime", "tpep_dropoff_datetime", "PULocationID",
     "payment_type", "fare_amount", "trip_distance", "pickup_hour",
     "pickup_day_of_week"}

----------------------------------------------------------------------------
(* Time *)

\* "2024-01-01" and "2024-02-01" in seconds from 2024-01-01 00:00:00
MonthStart == 0

MonthEnd == 31 * 86400

Hour(t) == (t \div 3600) % 24

Date(t) == t \div 86400

\* 2024-01-01 was a Monday
DayName(t) ==
    LET names == <<"Monday", "Tuesday", "Wednesday", "Thursday", "Friday",
                   "Saturday", "Sunday">>
    IN  names[(Date(t) % 7) + 1]

----------------------------------------------------------------------------
(* Data frames.  A file holds [cols, rows], rows being functions from the   *)
(* column names to cells.  A DataFrame in memory also carries the pandas    *)
(* index: each row is [i |-> position in the raw table, v |-> the cells].   *)

EmptyFrame == [cols |-> {}, rows |-> <<>>]

\* pq.read_table(path, columns=cols).to_pandas() / pd.read_parquet(path)
ReadFrame(data, cols) ==
    [cols |-> cols,
     rows |-> [k \in DOMAIN data.rows |->
                 [i |-> k, v |-> [c \in cols |-> data.rows[k][c]]]]]

\* faulty variant: the rows are written last first
ToParquetReversed(df) ==
    [cols |-> df.cols,
     rows |-> [k \in DOMAIN df.rows |-> df.rows[Len(df.rows) + 1 - k].v]]

\* df.to_parquet(path, index=False)
ToParquet(df) ==
    [cols |-> df.cols, rows |-> [k \in DOMAIN df.rows |-> df.rows[k].v]]

\* df = df[mask]
Keep(df, P(_)) == [df EXCEPT !.rows = SelectSeq(df.rows, LAMBDA r : P(r.v))]

\* df[c] = f(row)
Assign(df, c, f(_)) ==
    [cols |-> df.cols \cup {c},
     rows |-> [k \in DOMAIN df.rows |->
                 [i |-> df.rows[k].i,
                  v |-> [x \in df.cols \cup {c} |->
                           IF x = c THEN f(df.rows[k].v) ELSE df.rows[k].v[x]]]]]

----------------------------------------------------------------------------
(* The statements of _build_clean_dataset *)

KeepMonth(df) ==
    Keep(df, LAMBDA v : Ge(v["tpep_pickup_datetime"], MonthStart)
                        /\ Lt(v["tpep_pickup_datetime"], MonthEnd))

DropNa(df) == Keep(df, LAMBDA v : \A c \in dropna_subset : v[c] # NULL)

KeepDropoffAfterPickup(df) ==
    Keep(df, LAMBDA v : Gt(v["tpep_dropoff_datetime"], v["tpep_pickup_datetime"]))

\* faulty variant: a distance of zero passes
KeepDistanceNonNegative(df) == Keep(df, LAMBDA v : Ge(v["trip_distance"], 0))

KeepDistancePositive(df) == Keep(df, LAMBDA v : Gt(v["trip_distance"], 0))

\* faulty variant: the upper fare bound is forgotten
KeepFareNoCap(df) == Keep(df, LAMBDA v : Gt(v["fare_amount"], 0))

KeepFare(df) ==
    Keep(df, LAMBDA v : Gt(v["fare_amount"], 0) /\ Le(v["fare_amount"], 500))

KeepTotalPositive(df) == Keep(df, LAMBDA v : Gt(v["total_amount"], 0))

\* (dropoff - pickup).dt.total_seconds() / 60
DurationMinutes(v) ==
    IF v["tpep_dropoff_datetime"] = NULL \/ v["tpep_pickup_datetime"] = NULL
    THEN NaN
    ELSE Rat(v["tpep_dropoff_datetime"] - v["tpep_pickup_datetime"], 60)

AddDuration(df) == Assign(df, "trip_duration_minutes", DurationMinutes)

\* faulty variant: the upper bounds are exclusive
KeepDistanceDurationStrict(df) ==
    Keep(df, LAMBDA v : Lt(v["trip_distance"], 200)
                        /\ FGe(v["trip_duration_minutes"], <<1, 1>>)
                        /\ FGt(<<300, 1>>, v["trip_duration_minutes"]))

KeepDistanceDuration(df) ==
    Keep(df, LAMBDA v : Le(v["trip_distance"], 200)
                        /\ FGe(v["trip_duration_minutes"], <<1, 1>>)
                        /\ FLe(v["trip_duration_minutes"], <<300, 1>>))

KeepPassengers(df) ==
    Keep(df, LAMBDA v : Ge(v["passenger_count"], 1) /\ Le(v["passenger_count"], 9))

AddPickupParts(df) ==
    Assign(Assign(Assign(df,
        "pickup_hour", LAMBDA v : Hour(v["tpep_pickup_datetime"])),
        "pickup_day_of_week", LAMBDA v : DayName(v["tpep_pickup_datetime"])),
        "pickup_date", LAMBDA v : Date(v["tpep_pickup_datetime"]))

\* np.where(duration > 0, distance / (duration / 60), 0)
SpeedMph(v) ==
    IF FGt(v["trip_duration_minutes"], <<0, 1>>)
    THEN FDiv(ToFloat(v["trip_distance"]), FDiv(v["trip_duration_minutes"], <<60, 1>>))
    ELSE <<0, 1>>

AddSpeed(df) == Assign(df, "trip_speed_mph", SpeedMph)

\* faulty variant: a speed of exactly 80 is nulled too
NullSpeedFrom80(df) ==
    Assign(df, "trip_speed_mph",
           LAMBDA v : IF FGe(v["trip_speed_mph"], <<80, 1>>) THEN NaN
                      ELSE v["trip_speed_mph"])

\* df.loc[df["trip_speed_mph"] > 80, "trip_speed_mph"] = np.nan
NullFastSpeed(df) ==
    Assign(df, "trip_speed_mph",
           LAMBDA v : IF FGt(v["trip_speed_mph"], <<80, 1>>) THEN NaN
                      ELSE v["trip_speed_mph"])

\* faulty variant: the fraction is not scaled to a percentage
TipFraction(v) ==
    IF Gt(v["fare_amount"], 0)
    THEN FDiv(ToFloat(v["tip_amount"]), ToFloat(v["fare_amount"]))
    ELSE <<0, 1>>

\* np.where(fare > 0, (tip / fare) * 100, 0)
TipPct(v) ==
    IF Gt(v["fare_amount"], 0)
    THEN FMul(FDiv(ToFloat(v["tip_amount"]), ToFloat(v["fare_amount"])), <<100, 1>>)
    ELSE <<0, 1>>

AddTipPct(df) == Assign(df, "tip_pct", TipPct)

\* the derivations that follow the last filter
Derive(df) == AddTipPct(NullFastSpeed(AddSpeed(AddPickupParts(df))))

\* the filters that follow the month restriction and the null drop
FilterValid(df) ==
    KeepPassengers(KeepDistanceDuration(AddDuration(KeepTotalPositive(
        KeepFare(KeepDistancePositive(KeepDropoffAfterPickup(df)))))))

\* app.py lines 90-106
CleanHome(df) == Derive(FilterValid(DropNa(KeepMonth(df))))

\* pages/1-Overview.py lines 64-80
CleanOverview(df) == Derive(FilterValid(DropNa(KeepMonth(df))))

\* faulty variant: the copy of 2-Visualizations.py without the month filter
CleanVisualizationsAnyMonth(df) == Derive(FilterValid(DropNa(df)))

\* pages/2-Visualizations.py lines 39-55: the null drop comes first
CleanVisualizations(df) == Derive(FilterValid(KeepMonth(DropNa(df))))

----------------------------------------------------------------------------
(* Raw inputs *)

AllCols == needed \cup {"Airport_fee"}

\* 2024-01-11 08:00:00
T0 == 10 * 86400 + 8 * 3600

\* a valid trip: 10 miles in 15 minutes, fare 20, tip 4
BaseRow ==
    [c \in AllCols |->
        CASE c = "tpep_pickup_datetime" -> T0
          [] c = "tpep_dropoff_datetime" -> T0 + 900
          [] c = "PULocationID" -> 132
          [] c = "DOLocationID" -> 236
          [] c = "passenger_count" -> 1
          [] c = "trip_distance" -> 10
          [] c = "fare_amount" -> 20
          [] c = "tip_amount" -> 4
          [] c = "total_amount" -> 30
          [] c = "payment_type" -> 1
          [] OTHER -> 1]

With1(r, c, x) == [r EXCEPT ![c] = x]

With2(r, c, x, d, y) == [r EXCEPT ![c] = x, ![d] = y]

Trip(pickup, seconds, dist) ==
    [BaseRow EXCEPT !["tpep_pickup_datetime"] = pickup,
                    !["tpep_dropoff_datetime"] = pickup + seconds,
                    !["trip_distance"] = dist]

ZeroDistRow == With1(BaseRow, "trip_distance", 0)

\* 100 miles in 10 minutes: 600 mph
FastRow == Trip(T0, 600, 100)

\* distance 200, duration 300 minutes, fare 500
BoundaryRow == With1(Trip(T0, 18000, 200), "fare_amount", 500)

TailPool == {BaseRow, ZeroDistRow, FastRow}

RowPool ==
    TailPool \cup
    {BoundaryRow,
     With1(BaseRow, "tpep_pickup_datetime", NULL),
     With1(BaseRow, "tpep_dropoff_datetime", NULL),
     With1(BaseRow, "PULocationID", NULL),
     With1(BaseRow, "DOLocationID", NULL),
     With1(BaseRow, "fare_amount", NULL),
     With1(BaseRow, "passenger_count", NULL),
     With1(BaseRow, "trip_distance", NULL),
     With1(BaseRow, "total_amount", NULL),
     With1(BaseRow, "tip_amount", NULL),
     Trip(MonthStart - 1, 900, 10),
     Trip(MonthStart, 900, 10),
     Trip(MonthEnd - 1, 900, 10),
     Trip(MonthEnd, 900, 10),
     With1(Trip(MonthEnd, 900, 10), "fare_amount", NULL),
     Trip(T0, 0, 10),
     Trip(T0, 0 - 60, 10),
     Trip(T0, 59, 1),
     Trip(T0, 60, 1),
     Trip(T0, 18000, 10),
     Trip(T0, 18001, 10),
     Trip(T0, 900, 20),
     Trip(T0, 900, 21),
     Trip(T0, 18000, 201),
     With1(BaseRow, "passenger_count", 0),
     With1(BaseRow, "passenger_count", 9),
     With1(BaseRow, "passenger_count", 10),
     With2(BaseRow, "fare_amount", 0, "tip_amount", 5),
     With1(BaseRow, "fare_amount", 0 - 5),
     With1(BaseRow, "fare_amount", 500),
     With1(BaseRow, "fare_amount", 501),
     With1(BaseRow, "total_amount", 0),
     With1(BaseRow, "tip_amount", 0)}

\* a raw parquet file with the given schema
Source(cols, rows) ==
    [cols |-> cols, rows |-> [k \in DOMAIN rows |-> [c \in cols |-> rows[k][c]]]]

\* inputs of the pipeline: up to MaxRows rows, at most one outside TailPool
PipeSchema == required_cols \cup {"VendorID"}

PipeInputs ==
    {Source(PipeSchema, rows) :
        rows \in {s \in UNION {[1..n -> RowPool] : n \in 0..MaxRows} :
                     Cardinality({k \in DOMAIN s : s[k] \notin TailPool}) <= 1}}

\* raw sources with different schemas
Schemas ==
    {needed,
     required_cols \cup {"VendorID", "extra"},
     required_cols \cup {"VendorID", "Airport_fee"},
     (required_cols \ {"passenger_count", "tip_amount"}) \cup {"VendorID"},
     required_cols \ {"payment_type"},
     required_cols \ {"PULocationID", "fare_amount"},
     required_cols \ {"trip_distance"}}

Sources == {Source(cols, <<BaseRow, ZeroDistRow, FastRow>>) : cols \in Schemas}

----------------------------------------------------------------------------
(* Pages, sessions, results *)

Pages == {"Home", "Overview", "Visualizations", "Visualisations"}

\* the pages whose script holds a copy of _build_clean_dataset
Builders == {"Home", "Overview", "Visualizations"}

\* the pages whose script calls load_zones after load_data
ZonePages == {"Home", "Visualizations", "Visualisations"}

Sessions == 1..NumSessions

\* the sessions of the concurrent first build
Racers == 1..NumRacers

NoMemo == [has |-> FALSE, df |-> EmptyFrame]

NoOutcome == [kind |-> "none", type |-> "", names |-> {}, nfilt |-> 0]

Ok == [kind |-> "ok", type |-> "", names |-> {}, nfilt |-> 0]

\* an exception that propagates to the top of the script run
Raised(type, names, nfilt) ==
    [kind |-> "error", type |-> type, names |-> names, nfilt |-> nfilt]

\* st.error(...) followed by st.stop()
Halted == [kind |-> "halted", type |-> "", names |-> {}, nfilt |-> 0]

----------------------------------------------------------------------------
(* pages/2-Visualizations.py has no schema check: a missing column raises   *)
(* KeyError at the first statement that uses it.  Each entry: the line, the *)
(* columns the statement looks up, and whether the statement filters rows.  *)

VizStatements ==
    << [line |-> 39, uses |-> {"tpep_pickup_datetime"}, filter |-> FALSE],
       [line |-> 40, uses |-> {"tpep_dropoff_datetime"}, filter |-> FALSE],
       [line |-> 41, uses |-> dropna_subset, filter |-> TRUE],
       [line |-> 42, uses |-> {"tpep_pickup_datetime"}, filter |-> TRUE],
       [line |-> 43, uses |-> {"tpep_dropoff_datetime", "tpep_pickup_datetime"}, filter |-> TRUE],
       [line |-> 44, uses |-> {"trip_distance"}, filter |-> TRUE],
       [line |-> 45, uses |-> {"fare_amount"}, filter |-> TRUE],
       [line |-> 46, uses |-> {"total_amount"}, filter |-> TRUE],
       [line |-> 47, uses |-> {"tpep_dropoff_datetime", "tpep_pickup_datetime"}, filter |-> FALSE],
       [line |-> 48, uses |-> {"trip_distance"}, filter |-> TRUE],
       [line |-> 49, uses |-> {"passenger_count"}, filter |-> TRUE],
       [line |-> 50, uses |-> {"tpep_pickup_datetime"}, filter |-> FALSE],
       [line |-> 53, uses |-> {"trip_distance"}, filter |-> FALSE],
       [line |-> 55, uses |-> {"fare_amount", "tip_amount"}, filter |-> FALSE] >>

\* the statements that raise KeyError on a frame with these columns
VizFailing(cols) ==
    {k \in DOMAIN VizStatements : ~(VizStatements[k].uses \subseteq cols)}

VizFirstFailing(cols) ==
    CHOOSE k \in VizFailing(cols) : \A j \in VizFailing(cols) : k <= j

\* the KeyError: it names the missing columns of the failing lookup
VizKeyError(cols) ==
    LET k == VizFirstFailing(cols)
    IN  Raised("KeyError", VizStatements[k].uses \ cols,
               Cardinality({j \in 1..(k - 1) : VizStatements[j].filter}))

\* app.py lines 81-83, pages/1-Overview.py lines 55-57
missing_required(available_cols) == required_cols \ available_cols

\* app.py line 67: the read projection
selected_cols(available_cols) == {column \in needed : column \in available_cols}

\* the body of load_data after the artifact exists: read it, recompute pickup_date
LoadFrame(data, pg) ==
    LET cols == IF pg = "Visualisations" THEN vis_required_columns ELSE data.cols
    IN  [cols |-> cols \cup {"pickup_date"},
         rows |-> [k \in DOMAIN data.rows |->
                     [c \in cols \cup {"pickup_date"} |->
                        IF c = "pickup_date"
                        THEN Date(data.rows[k]["tpep_pickup_datetime"])
                        ELSE data.rows[k][c]]]]

\* the builder copy of a page
CleanOf(pg, df) ==
    CASE pg = "Home" -> CleanHome(df)
      [] pg = "Overview" -> CleanOverview(df)
      [] OTHER -> CleanVisualizations(df)

----------------------------------------------------------------------------
(* The sidebar filters of pages/2-Visualisations.py and                    *)
(* pages/2-Visualizations.py: the same statements in both files.  A date   *)
(* is its day number (Date); what st.date_input hands back is a date or a  *)
(* tuple of dates.                                                         *)

VisPages == {"Visualizations", "Visualisations"}

ADate(d) == [tuple |-> FALSE, v |-> <<d>>]

ATuple(s) == [tuple |-> TRUE, v |-> s]

NoDate == [tuple |-> FALSE, v |-> <<>>]

PAYMENT_MAP ==
    [code \in 1..5 |->
        CASE code = 1 -> "Credit Card"
          [] code = 2 -> "Cash"
          [] code = 3 -> "No Charge"
          [] code = 4 -> "Dispute"
          [] OTHER -> "Unknown"]

\* the missing value of the string column payment_name
NoName == "nan"

\* Series.map(PAYMENT_MAP): a code that is no key of the dict maps to NaN
PaymentName(code) ==
    IF code \in DOMAIN PAYMENT_MAP THEN PAYMENT_MAP[code] ELSE NoName

\* df["payment_name"] = df["payment_type"].map(PAYMENT_MAP)
WithPaymentName(df) ==
    [cols |-> df.cols \cup {"payment_name"},
     rows |-> [k \in DOMAIN df.rows |->
                 [c \in df.cols \cup {"payment_name"} |->
                    IF c = "payment_name"
                    THEN PaymentName(df.rows[k]["payment_type"])
                    ELSE df.rows[k][c]]]]

\* sorted(df["payment_name"].dropna().unique().tolist())
all_payment_types(df) ==
    {df.rows[k]["payment_name"] : k \in DOMAIN df.rows} \ {NoName}

PickupDates(df) == {df.rows[k]["pickup_date"] : k \in DOMAIN df.rows}

\* df["pickup_date"].min() and .max() of a dataset that has rows
min_date(df) == CHOOSE d \in PickupDates(df) : \A e \in PickupDates(df) : d <= e

max_date(df) == CHOOSE d \in PickupDates(df) : \A e \in PickupDates(df) : e <= d

\* the values the date widget can hand back between min_value and max_value:
\* a pair, a one-element tuple while the second date is not picked yet, the
\* empty tuple, and a bare date (the else branch takes whatever is no pair)
DateRanges(lo, hi) ==
    UNION {{ATuple(<<a, b>>) : b \in a..hi} : a \in lo..hi}
        \cup {ATuple(<<a>>) : a \in lo..hi}
        \cup {ATuple(<<>>)}
        \cup {ADate(a) : a \in lo..hi}

\* values of the hour slider, the default <<0, 23>> among them
HourRanges == {<<0, 23>>, <<0, 7>>, <<8, 8>>, <<9, 23>>}

\* if isinstance(date_range, tuple) and len(date_range) == 2:
\*     start_date, end_date = date_range
\* else: start_date = end_date = date_range
start_date(date_range) ==
    IF date_range.tuple /\ Len(date_range.v) = 2
    THEN ADate(date_range.v[1])
    ELSE date_range

end_date(date_range) ==
    IF date_range.tuple /\ Len(date_range.v) = 2
    THEN ADate(date_range.v[2])
    ELSE date_range

\* df["pickup_date"] >= x: pandas takes a tuple for a scalar and compares
\* every date of the column with it, which raises TypeError
CompareRaises(df, x) == df.rows # <<>> /\ x.tuple

\* the mask of df[...] for one row
Selected(r, u) ==
    /\ r["pickup_date"] >= u.start_date.v[1]
    /\ r["pickup_date"] <= u.end_date.v[1]
    /\ r["pickup_hour"] >= u.hour_range[1]
    /\ r["pickup_hour"] <= u.hour_range[2]
    /\ r["payment_name"] \in u.selected_payments

\* filtered = df[mask]: the rows that pass, under their index labels
Filtered(df, u) ==
    SelectSeq([k \in DOMAIN df.rows |-> [i |-> k, v |-> df.rows[k]]],
              LAMBDA r : Selected(r.v, u))

\* the script's variables before the sidebar has run
NoUi ==
    [date_range |-> NoDate, start_date |-> NoDate, end_date |-> NoDate,
     hour_range |-> <<0, 23>>, all_payment_types |-> {},
     selected_payments |-> {}, filtered |-> <<>>, charts |-> FALSE]

\* st.warning(...) followed by st.stop()
Warned == [kind |-> "halted", type |-> "warning", names |-> {}, nfilt |-> 0]

----------------------------------------------------------------------------
(* Initial state: nothing downloaded, nothing built, nothing memoized *)

Files == {"trip", "zone", "clean"}

Idle ==
    /\ pc = [p \in Sessions |-> "idle"]
    /\ page = [p \in Sessions |-> "Home"]
    /\ tbl = [p \in Sessions |-> EmptyFrame]
    /\ ret = [p \in Sessions |-> EmptyFrame]
    /\ ui = [p \in Sessions |-> NoUi]
    /\ outcome = [p \in Sessions |-> NoOutcome]
    /\ memo = [pg \in Pages |-> NoMemo]
    /\ zmemo = [pg \in ZonePages |-> FALSE]
    /\ netreq = [f \in {"trip", "zone"} |-> 0]
    /\ builds = 0
    /\ alters = 0

Init ==
    /\ remote \in Sources
    /\ fstate = [f \in Files |-> "absent"]
    /\ tripData = EmptyFrame
    /\ cleanData = EmptyFrame
    /\ Idle

\* no script run is in progress
Quiet == \A q \in Sessions : pc[q] = "idle"

\* the script run of session p ends
End(p, result) ==
    /\ pc' = [pc EXCEPT ![p] = "end"]
    /\ outcome' = [outcome EXCEPT ![p] = result]

Goto(p, label) ==
    /\ pc' = [pc EXCEPT ![p] = label]
    /\ UNCHANGED outcome

\* load_data and load_zones have returned: the script goes on to its widgets
Loaded(p) ==
    /\ pc' = [pc EXCEPT ![p] = "loaded"]
    /\ outcome' = [outcome EXCEPT ![p] = Ok]

----------------------------------------------------------------------------
(* A session runs a page script *)

StartRun(p, pg) ==
    /\ pc[p] = "idle"
    /\ page' = [page EXCEPT ![p] = pg]
    /\ Goto(p, "load_data")
    /\ UNCHANGED <<ui, remote, fstate, tripData, cleanData, memo, zmemo, tbl, ret,
                   netreq, builds, alters>>

\* faulty variant: the artifact is read again although the memo holds it
LoadDataReread(p) ==
    /\ pc[p] = "load_data"
    /\ memo[page[p]].has
    /\ Goto(p, "read_clean")
    /\ UNCHANGED <<ui, remote, fstate, tripData, cleanData, memo, zmemo, page, tbl,
                   ret, netreq, builds, alters>>

\* @st.cache_data: the memo holds a value, the body of load_data is not run
LoadDataMemo(p) ==
    /\ pc[p] = "load_data"
    /\ memo[page[p]].has
    /\ ret' = [ret EXCEPT ![p] = memo[page[p]].df]
    /\ IF page[p] \in ZonePages THEN Goto(p, "load_zones") ELSE Loaded(p)
    /\ UNCHANGED <<ui, remote, fstate, tripData, cleanData, memo, zmemo, page, tbl,
                   netreq, builds, alters>>

\* load_data: os.path.exists(CLEAN_PATH)
LoadDataHit(p) ==
    /\ pc[p] = "load_data"
    /\ ~memo[page[p]].has
    /\ fstate["clean"] # "absent"
    /\ Goto(p, "read_clean")
    /\ UNCHANGED <<ui, remote, fstate, tripData, cleanData, memo, zmemo, page, tbl,
                   ret, netreq, builds, alters>>

\* faulty variant: the builder is called without looking for the artifact
LoadDataRebuild(p) ==
    /\ pc[p] = "load_data"
    /\ ~memo[page[p]].has
    /\ page[p] \in Builders
    /\ builds < MaxBuilds
    /\ builds' = builds + 1
    /\ Goto(p, "dl_trip")
    /\ UNCHANGED <<ui, remote, fstate, tripData, cleanData, memo, zmemo, page, tbl,
                   ret, netreq, alters>>

\* load_data: the artifact is absent, _build_clean_dataset() is called
LoadDataBuild(p) ==
    /\ pc[p] = "load_data"
    /\ ~memo[page[p]].has
    /\ fstate["clean"] = "absent"
    /\ page[p] \in Builders
    /\ builds < MaxBuilds
    /\ builds' = builds + 1
    /\ Goto(p, "dl_trip")
    /\ UNCHANGED <<ui, remote, fstate, tripData, cleanData, memo, zmemo, page, tbl,
                   ret, netreq, alters>>

\* faulty variant: the page builds the artifact as the other pages do
LoadDataNotReadyBuilds(p) ==
    /\ pc[p] = "load_data"
    /\ ~memo[page[p]].has
    /\ fstate["clean"] = "absent"
    /\ page[p] = "Visualisations"
    /\ builds < MaxBuilds
    /\ builds' = builds + 1
    /\ Goto(p, "dl_trip")
    /\ UNCHANGED <<ui, remote, fstate, tripData, cleanData, memo, zmemo, page, tbl,
                   ret, netreq, alters>>

\* pages/2-Visualisations.py load_data: st.error, st.stop
LoadDataNotReady(p) ==
    /\ pc[p] = "load_data"
    /\ ~memo[page[p]].has
    /\ fstate["clean"] = "absent"
    /\ page[p] = "Visualisations"
    /\ End(p, Halted)
    /\ UNCHANGED <<ui, remote, fstate, tripData, cleanData, memo, zmemo, page, tbl,
                   ret, netreq, builds, alters>>

----------------------------------------------------------------------------
(* _download(url, dest), called at three places *)

DownloadPcs == {"dl_trip", "dl_zone", "zl_dl"}

DownloadFile(label) == IF label = "dl_trip" THEN "trip" ELSE "zone"

DownloadNext(label) ==
    CASE label = "dl_trip" -> "dl_zone"
      [] label = "dl_zone" -> "read_raw"
      [] OTHER -> "zl_read"

\* faulty variant: an existing file is fetched again
DownloadAgain(p) ==
    LET f == DownloadFile(pc[p])
    IN  /\ pc[p] \in DownloadPcs
        /\ fstate[f] # "absent"
        /\ netreq[f] < MaxReq
        /\ netreq' = [netreq EXCEPT ![f] = @ + 1]
        /\ fstate' = [fstate EXCEPT ![f] = "full"]
        /\ tripData' = IF f = "trip" THEN remote ELSE tripData
        /\ Goto(p, DownloadNext(pc[p]))
        /\ UNCHANGED <<ui, remote, cleanData, memo, zmemo, page, tbl, ret, builds,
                       alters>>

\* os.path.exists(dest): return
DownloadSkip(p) ==
    /\ pc[p] \in DownloadPcs
    /\ fstate[DownloadFile(pc[p])] # "absent"
    /\ Goto(p, DownloadNext(pc[p]))
    /\ UNCHANGED <<ui, remote, fstate, tripData, cleanData, memo, zmemo, page, tbl,
                   ret, netreq, builds, alters>>

\* the request succeeds and every chunk is written
DownloadOk(p) ==
    LET f == DownloadFile(pc[p])
    IN  /\ pc[p] \in DownloadPcs
        /\ fstate[f] = "absent"
        /\ netreq[f] < MaxReq
        /\ netreq' = [netreq EXCEPT ![f] = @ + 1]
        /\ fstate' = [fstate EXCEPT ![f] = "full"]
        /\ tripData' = IF f = "trip" THEN remote ELSE tripData
        /\ Goto(p, DownloadNext(pc[p]))
        /\ UNCHANGED <<ui, remote, cleanData, memo, zmemo, page, tbl, ret, builds,
                       alters>>

\* requests.get or raise_for_status raises: dest is never opened
DownloadRefused(p) ==
    LET f == DownloadFile(pc[p])
    IN  /\ pc[p] \in DownloadPcs
        /\ fstate[f] = "absent"
        /\ netreq[f] < MaxReq
        /\ netreq' = [netreq EXCEPT ![f] = @ + 1]
        /\ End(p, Raised("transfer", {}, 0))
        /\ UNCHANGED <<ui, remote, fstate, tripData, cleanData, memo, zmemo, page,
                       tbl, ret, builds, alters>>

\* iter_content raises after dest was opened: the partial file stays
DownloadCut(p) ==
    LET f == DownloadFile(pc[p])
    IN  /\ pc[p] \in DownloadPcs
        /\ fstate[f] = "absent"
        /\ netreq[f] < MaxReq
        /\ netreq' = [netreq EXCEPT ![f] = @ + 1]
        /\ fstate' = [fstate EXCEPT ![f] = "partial"]
        /\ End(p, Raised("transfer", {}, 0))
        /\ UNCHANGED <<ui, remote, tripData, cleanData, memo, zmemo, page, tbl, ret,
                       builds, alters>>

----------------------------------------------------------------------------
(* _build_clean_dataset after the downloads *)

\* TRIP_RAW is truncated or gone: the parquet reader raises
ReadRawFail(p) ==
    /\ pc[p] = "read_raw"
    /\ fstate["trip"] # "full"
    /\ End(p, Raised("unreadable", {}, 0))
    /\ UNCHANGED <<ui, remote, fstate, tripData, cleanData, memo, zmemo, page, tbl,
                   ret, netreq, builds, alters>>

\* faulty variant: the artifact file is created before the schema check
ValidateFailLeavesFile(p) ==
    /\ pc[p] = "read_raw"
    /\ page[p] \in {"Home", "Overview"}
    /\ fstate["trip"] = "full"
    /\ missing_required(tripData.cols) # {}
    /\ fstate' = [fstate EXCEPT !["clean"] = "full"]
    /\ cleanData' = EmptyFrame
    /\ End(p, Raised("RuntimeError", missing_required(tripData.cols), 0))
    /\ UNCHANGED <<ui, remote, tripData, memo, zmemo, page, tbl, ret, netreq,
                   builds, alters>>

\* app.py, 1-Overview.py: raise RuntimeError(missing_required)
ValidateFail(p) ==
    /\ pc[p] = "read_raw"
    /\ page[p] \in {"Home", "Overview"}
    /\ fstate["trip"] = "full"
    /\ missing_required(tripData.cols) # {}
    /\ End(p, Raised("RuntimeError", missing_required(tripData.cols), 0))
    /\ UNCHANGED <<ui, remote, fstate, tripData, cleanData, memo, zmemo, page, tbl,
                   ret, netreq, builds, alters>>

\* app.py, 1-Overview.py: pq.read_table(TRIP_RAW, columns=selected_cols)
ReadTable(p) ==
    /\ pc[p] = "read_raw"
    /\ page[p] \in {"Home", "Overview"}
    /\ fstate["trip"] = "full"
    /\ missing_required(tripData.cols) = {}
    /\ tbl' = [tbl EXCEPT ![p] = ReadFrame(tripData, selected_cols(tripData.cols))]
    /\ Goto(p, "clean")
    /\ UNCHANGED <<ui, remote, fstate, tripData, cleanData, memo, zmemo, page, ret,
                   netreq, builds, alters>>

\* 2-Visualizations.py: pd.read_parquet(TRIP_RAW), every column
ReadParquetAll(p) ==
    /\ pc[p] = "read_raw"
    /\ page[p] = "Visualizations"
    /\ fstate["trip"] = "full"
    /\ tbl' = [tbl EXCEPT ![p] = ReadFrame(tripData, tripData.cols)]
    /\ Goto(p, "clean")
    /\ UNCHANGED <<ui, remote, fstate, tripData, cleanData, memo, zmemo, page, ret,
                   netreq, builds, alters>>

\* the filters and the derivations run to the end
CleanOk(p) ==
    /\ pc[p] = "clean"
    /\ VizFailing(tbl[p].cols) = {}
    /\ tbl' = [tbl EXCEPT ![p] = CleanOf(page[p], tbl[p])]
    /\ Goto(p, "write")
    /\ UNCHANGED <<ui, remote, fstate, tripData, cleanData, memo, zmemo, page, ret,
                   netreq, builds, alters>>

\* 2-Visualizations.py: a statement looks up a column the source lacks
CleanKeyError(p) ==
    /\ pc[p] = "clean"
    /\ VizFailing(tbl[p].cols) # {}
    /\ tbl' = [tbl EXCEPT ![p] = EmptyFrame]
    /\ End(p, VizKeyError(tbl[p].cols))
    /\ UNCHANGED <<ui, remote, fstate, tripData, cleanData, memo, zmemo, page, ret,
                   netreq, builds, alters>>

\* os.makedirs(PROCESSED_DIR); df.to_parquet(CLEAN_PATH, index=False)
WriteClean(p) ==
    /\ pc[p] = "write"
    /\ cleanData' = ToParquet(tbl[p])
    /\ fstate' = [fstate EXCEPT !["clean"] = "full"]
    /\ Goto(p, "read_clean")
    /\ UNCHANGED <<ui, remote, tripData, memo, zmemo, page, tbl, ret, netreq,
                   builds, alters>>

----------------------------------------------------------------------------
(* load_data: read the artifact; the decorator stores the result *)

Readable(pg) == pg # "Visualisations" \/ vis_required_columns \subseteq cleanData.cols

ReadClean(p) ==
    /\ pc[p] = "read_clean"
    /\ fstate["clean"] = "full"
    /\ Readable(page[p])
    /\ ret' = [ret EXCEPT ![p] = LoadFrame(cleanData, page[p])]
    /\ memo' = [memo EXCEPT ![page[p]] =
                   [has |-> TRUE, df |-> LoadFrame(cleanData, page[p])]]
    /\ tbl' = [tbl EXCEPT ![p] = EmptyFrame]
    /\ IF page[p] \in ZonePages THEN Goto(p, "load_zones") ELSE Loaded(p)
    /\ UNCHANGED <<ui, remote, fstate, tripData, cleanData, zmemo, page, netreq,
                   builds, alters>>

\* 2-Visualisations.py: a column of its projection is not in the artifact
ReadCleanFail(p) ==
    /\ pc[p] = "read_clean"
    /\ ~Readable(page[p])
    /\ End(p, Raised("unreadable", vis_required_columns \ cleanData.cols, 0))
    /\ UNCHANGED <<ui, remote, fstate, tripData, cleanData, memo, zmemo, page, tbl,
                   ret, netreq, builds, alters>>

----------------------------------------------------------------------------
(* load_zones *)

ZonesMemo(p) ==
    /\ pc[p] = "load_zones"
    /\ zmemo[page[p]]
    /\ Loaded(p)
    /\ UNCHANGED <<ui, remote, fstate, tripData, cleanData, memo, zmemo, page, tbl,
                   ret, netreq, builds, alters>>

\* os.path.exists(ZONE_CSV)
ZonesPresent(p) ==
    /\ pc[p] = "load_zones"
    /\ ~zmemo[page[p]]
    /\ fstate["zone"] # "absent"
    /\ Goto(p, "zl_read")
    /\ UNCHANGED <<ui, remote, fstate, tripData, cleanData, memo, zmemo, page, tbl,
                   ret, netreq, builds, alters>>

\* faulty variant: the missing zone file is not fetched, the run goes on
ZonesMissingIgnored(p) ==
    /\ pc[p] = "load_zones"
    /\ ~zmemo[page[p]]
    /\ fstate["zone"] = "absent"
    /\ page[p] # "Visualisations"
    /\ Loaded(p)
    /\ UNCHANGED <<ui, remote, fstate, tripData, cleanData, memo, zmemo, page, tbl,
                   ret, netreq, builds, alters>>

\* app.py, 2-Visualizations.py: _download(ZONE_URL, ZONE_CSV)
ZonesMissing(p) ==
    /\ pc[p] = "load_zones"
    /\ ~zmemo[page[p]]
    /\ fstate["zone"] = "absent"
    /\ page[p] # "Visualisations"
    /\ Goto(p, "zl_dl")
    /\ UNCHANGED <<ui, remote, fstate, tripData, cleanData, memo, zmemo, page, tbl,
                   ret, netreq, builds, alters>>

\* 2-Visualisations.py load_zones: st.error, st.stop
ZonesNotReady(p) ==
    /\ pc[p] = "load_zones"
    /\ ~zmemo[page[p]]
    /\ fstate["zone"] = "absent"
    /\ page[p] = "Visualisations"
    /\ End(p, Halted)
    /\ UNCHANGED <<ui, remote, fstate, tripData, cleanData, memo, zmemo, page, tbl,
                   ret, netreq, builds, alters>>

\* pd.read_csv(ZONE_CSV)
ZonesRead(p) ==
    /\ pc[p] = "zl_read"
    /\ fstate["zone"] # "absent"
    /\ zmemo' = [zmemo EXCEPT ![page[p]] = TRUE]
    /\ Loaded(p)
    /\ UNCHANGED <<ui, remote, fstate, tripData, cleanData, memo, page, tbl, ret,
                   netreq, builds, alters>>

\* pd.read_csv on a truncated file may also raise (an empty file does)
ZonesReadFail(p) ==
    /\ pc[p] = "zl_read"
    /\ fstate["zone"] = "partial"
    /\ End(p, Raised("unreadable", {}, 0))
    /\ UNCHANGED <<ui, remote, fstate, tripData, cleanData, memo, zmemo, page, tbl,
                   ret, netreq, builds, alters>>

----------------------------------------------------------------------------
(* The sidebar and the filter of the two visualisation pages *)

\* min_date, max_date, st.sidebar.date_input, the single-date case and the
\* hour slider
DateInput(p) ==
    /\ pc[p] = "loaded"
    /\ page[p] \in VisPages
    /\ ret[p].rows # <<>>
    /\ \E dr \in DateRanges(min_date(ret[p]), max_date(ret[p])) :
       \E hr \in HourRanges :
          ui' = [ui EXCEPT ![p] = [@ EXCEPT !.date_range = dr,
                                            !.start_date = start_date(dr),
                                            !.end_date = end_date(dr),
                                            !.hour_range = hr]]
    /\ Goto(p, "payment")
    /\ UNCHANGED <<remote, fstate, tripData, cleanData, memo, zmemo, page, tbl,
                   ret, netreq, builds, alters>>

\* the dataset has no row: min() and max() are NaN, which st.date_input
\* refuses as value
DateInputFail(p) ==
    /\ pc[p] = "loaded"
    /\ page[p] \in VisPages
    /\ ret[p].rows = <<>>
    /\ End(p, Raised("StreamlitAPIException", {}, 0))
    /\ UNCHANGED <<ui, remote, fstate, tripData, cleanData, memo, zmemo, page,
                   tbl, ret, netreq, builds, alters>>

\* faulty variant: the rows without a payment name are dropped from df
DropUnnamed(p) ==
    LET df == WithPaymentName(ret[p])
        named == [df EXCEPT !.rows =
                     SelectSeq(df.rows, LAMBDA r : r["payment_name"] # NoName)]
    IN  /\ pc[p] = "payment"
        /\ "payment_type" \in ret[p].cols
        /\ ret' = [ret EXCEPT ![p] = named]
        /\ \E sel \in SUBSET all_payment_types(df) :
              ui' = [ui EXCEPT ![p] =
                        [@ EXCEPT !.all_payment_types = all_payment_types(df),
                                  !.selected_payments = sel]]
        /\ Goto(p, "filter")
        /\ UNCHANGED <<remote, fstate, tripData, cleanData, memo, zmemo, page,
                       tbl, netreq, builds, alters>>

\* df["payment_name"] = ..., all_payment_types and the multiselect
AddPaymentName(p) ==
    LET df == WithPaymentName(ret[p])
    IN  /\ pc[p] = "payment"
        /\ "payment_type" \in ret[p].cols
        /\ ret' = [ret EXCEPT ![p] = df]
        /\ \E sel \in SUBSET all_payment_types(df) :
              ui' = [ui EXCEPT ![p] =
                        [@ EXCEPT !.all_payment_types = all_payment_types(df),
                                  !.selected_payments = sel]]
        /\ Goto(p, "filter")
        /\ UNCHANGED <<remote, fstate, tripData, cleanData, memo, zmemo, page,
                       tbl, netreq, builds, alters>>

\* 2-Visualizations.py over an artifact without payment_type
PaymentKeyError(p) ==
    /\ pc[p] = "payment"
    /\ "payment_type" \notin ret[p].cols
    /\ End(p, Raised("KeyError", {"payment_type"}, 0))
    /\ UNCHANGED <<ui, remote, fstate, tripData, cleanData, memo, zmemo, page,
                   tbl, ret, netreq, builds, alters>>

\* faulty variant: the charts are drawn whatever the number of rows
RenderAnyway(p) ==
    /\ pc[p] = "check"
    /\ ui' = [ui EXCEPT ![p].charts = TRUE]
    /\ End(p, Ok)
    /\ UNCHANGED <<remote, fstate, tripData, cleanData, memo, zmemo, page, tbl,
                   ret, netreq, builds, alters>>

\* filtered = df[...], the sidebar metric and the caption; len(df) is not 0
\* here, the run of a dataset without rows ended at st.date_input
ApplyFilters(p) ==
    /\ pc[p] = "filter"
    /\ ~CompareRaises(ret[p], ui[p].start_date)
    /\ ~CompareRaises(ret[p], ui[p].end_date)
    /\ ui' = [ui EXCEPT ![p].filtered = Filtered(ret[p], ui[p])]
    /\ Goto(p, "check")
    /\ UNCHANGED <<remote, fstate, tripData, cleanData, memo, zmemo, page, tbl,
                   ret, netreq, builds, alters>>

\* start_date is a tuple: the first comparison of the mask raises
FilterTypeError(p) ==
    /\ pc[p] = "filter"
    /\ CompareRaises(ret[p], ui[p].start_date)
    /\ End(p, Raised("TypeError", {}, 0))
    /\ UNCHANGED <<ui, remote, fstate, tripData, cleanData, memo, zmemo, page,
                   tbl, ret, netreq, builds, alters>>

\* if len(filtered) == 0: st.warning(...); st.stop()
StopEmpty(p) ==
    /\ pc[p] = "check"
    /\ ui[p].filtered = <<>>
    /\ End(p, Warned)
    /\ UNCHANGED <<ui, remote, fstate, tripData, cleanData, memo, zmemo, page,
                   tbl, ret, netreq, builds, alters>>

\* the tabs and their charts are drawn from filtered
RenderTabs(p) ==
    /\ pc[p] = "check"
    /\ ui[p].filtered # <<>>
    /\ ui' = [ui EXCEPT ![p].charts = TRUE]
    /\ End(p, Ok)
    /\ UNCHANGED <<remote, fstate, tripData, cleanData, memo, zmemo, page, tbl,
                   ret, netreq, builds, alters>>

\* the script run is over: its locals are gone, the session waits for the
\* next interaction
Reset(p) ==
    /\ pc' = [pc EXCEPT ![p] = "idle"]
    /\ page' = [page EXCEPT ![p] = "Home"]
    /\ tbl' = [tbl EXCEPT ![p] = EmptyFrame]
    /\ ret' = [ret EXCEPT ![p] = EmptyFrame]
    /\ ui' = [ui EXCEPT ![p] = NoUi]
    /\ outcome' = [outcome EXCEPT ![p] = NoOutcome]
    /\ UNCHANGED <<remote, fstate, tripData, cleanData, memo, zmemo, netreq,
                   builds, alters>>

\* the run has stopped, or the rest of the script (widgets and charts, which
\* change nothing the loads depend on) has run after the loads
Finish(p) ==
    /\ pc[p] \in {"end", "loaded"}
    /\ Reset(p)

----------------------------------------------------------------------------
(* The environment *)

\* the raw trip file is rewritten from outside: its first row is cut
AlterRaw ==
    /\ alters < MaxAlters
    /\ fstate["trip"] = "full"
    /\ tripData.rows # <<>>
    /\ alters' = alters + 1
    /\ tripData' = [tripData EXCEPT !.rows = Tail(tripData.rows)]
    /\ UNCHANGED <<ui, remote, fstate, cleanData, memo, zmemo, pc, page, tbl, ret,
                   outcome, netreq, builds>>

\* the raw trip file is removed from outside
RemoveRaw ==
    /\ alters < MaxAlters
    /\ fstate["trip"] # "absent"
    /\ alters' = alters + 1
    /\ fstate' = [fstate EXCEPT !["trip"] = "absent"]
    /\ tripData' = EmptyFrame
    /\ UNCHANGED <<ui, remote, cleanData, memo, zmemo, pc, page, tbl, ret, outcome,
                   netreq, builds>>

\* the zone lookup file is removed from outside
RemoveZone ==
    /\ alters < MaxAlters
    /\ fstate["zone"] # "absent"
    /\ alters' = alters + 1
    /\ fstate' = [fstate EXCEPT !["zone"] = "absent"]
    /\ UNCHANGED <<ui, remote, tripData, cleanData, memo, zmemo, pc, page, tbl, ret,
                   outcome, netreq, builds>>

\* the server process restarts: every st.cache_data memo is lost
Restart ==
    /\ Quiet
    /\ (\E pg \in Pages : memo[pg].has) \/ (\E pg \in ZonePages : zmemo[pg])
    /\ memo' = [pg \in Pages |-> NoMemo]
    /\ zmemo' = [pg \in ZonePages |-> FALSE]
    /\ UNCHANGED <<ui, remote, fstate, tripData, cleanData, pc, page, tbl, ret,
                   outcome, netreq, builds, alters>>

----------------------------------------------------------------------------
(* Script runs are taken one at a time (spec section 5) *)

Step(p) ==
    \/ LoadDataMemo(p) \/ LoadDataHit(p) \/ LoadDataBuild(p) \/ LoadDataNotReady(p)
    \/ DownloadSkip(p) \/ DownloadOk(p) \/ DownloadRefused(p) \/ DownloadCut(p)
    \/ ReadRawFail(p) \/ ValidateFail(p) \/ ReadTable(p) \/ ReadParquetAll(p)
    \/ CleanOk(p) \/ CleanKeyError(p) \/ WriteClean(p)
    \/ ReadClean(p) \/ ReadCleanFail(p)
    \/ ZonesMemo(p) \/ ZonesPresent(p) \/ ZonesMissing(p) \/ ZonesNotReady(p)
    \/ ZonesRead(p) \/ ZonesReadFail(p)
    \/ Finish(p)

Next ==
    \/ \E p \in Sessions : \E pg \in Pages : Quiet /\ StartRun(p, pg)
    \/ \E p \in Sessions : Step(p)
    \/ AlterRaw
    \/ RemoveRaw
    \/ RemoveZone
    \/ Restart

Spec == Init /\ [][Next]_vars

----------------------------------------------------------------------------
(* The pipeline as a function of the raw input: the raw files are in place, *)
(* no artifact exists, and one of the three builder pages builds it.        *)

\* payment code 2, picked up on the next day at 23:00
CashRow ==
    With1(Trip(T0 + 86400 + 15 * 3600, 900, 10), "payment_type", 2)

\* payment code 0, which PAYMENT_MAP does not list, two days later at 00:00
FlexFareRow ==
    With1(Trip(T0 + 2 * 86400 - 8 * 3600, 900, 10), "payment_type", 0)

\* The end-to-end scenario: ten raw rows, three with a fare outside (0, 500],
\* two with a distance outside (0, 200], five valid ones between them.
BadFares == {0, 0 - 5, 501}

BadDistances == {0, 201}

\* one mile in one minute
ShortRow == Trip(T0, 60, 1)

TenRows(f1, f2, f3, d1, d2) ==
    <<BaseRow, With1(BaseRow, "fare_amount", f1), FastRow,
      With1(BaseRow, "trip_distance", d1), With1(BaseRow, "fare_amount", f2),
      BoundaryRow, CashRow, With1(BaseRow, "trip_distance", d2),
      With1(BaseRow, "fare_amount", f3), ShortRow>>

\* the positions of the five valid rows of TenRows
TenRowsValid == {1, 3, 6, 7, 10}

TenRowInputs ==
    {Source(PipeSchema, TenRows(f[1], f[2], f[3], d[1], d[2])) :
        f \in [1..3 -> BadFares], d \in [1..2 -> BadDistances]}

PipeInit ==
    /\ remote \in PipeInputs \cup TenRowInputs
    /\ fstate = [f \in Files |-> IF f = "clean" THEN "absent" ELSE "full"]
    /\ tripData = remote
    /\ cleanData = EmptyFrame
    /\ Idle

PipeNext ==
    \/ \E p \in Sessions : \E pg \in Builders : Quiet /\ StartRun(p, pg)
    \/ \E p \in Sessions :
          \/ LoadDataBuild(p) \/ DownloadSkip(p)
          \/ ReadTable(p) \/ ReadParquetAll(p)
          \/ CleanOk(p) \/ WriteClean(p) \/ ReadClean(p)

PipeSpec == PipeInit /\ [][PipeNext]_vars

----------------------------------------------------------------------------
(* The visualisation pages over an artifact that a builder page has        *)
(* written: the raw files and the artifact are in place, nothing is        *)
(* memoized, and the user operates the sidebar widgets.                    *)

ViewRows ==
    {<<ZeroDistRow>>, <<BaseRow>>, <<FlexFareRow>>, <<BaseRow, CashRow>>,
     <<BaseRow, BaseRow>>, <<CashRow, FlexFareRow>>,
     <<BaseRow, ZeroDistRow, CashRow, FlexFareRow>>}

ViewSources ==
    {Source(PipeSchema, rows) : rows \in ViewRows}
        \cup {Source(PipeSchema \ {"payment_type"}, <<BaseRow, CashRow>>)}

\* what _build_clean_dataset of page pg persists from a raw source it accepts
Artifact(pg, src) ==
    ToParquet(CleanOf(pg, ReadFrame(src, IF pg = "Visualizations"
                                         THEN src.cols
                                         ELSE selected_cols(src.cols))))

Accepts(pg, src) ==
    IF pg = "Visualizations"
    THEN VizFailing(src.cols) = {}
    ELSE missing_required(src.cols) = {}

ViewInit ==
    /\ remote \in ViewSources
    /\ fstate = [f \in Files |-> "full"]
    /\ tripData = remote
    /\ \E pg \in Builders :
          /\ Accepts(pg, remote)
          /\ cleanData = Artifact(pg, remote)
    /\ Idle

\* the script has run to its end or has stopped
ViewFinish(p) ==
    /\ pc[p] = "end"
    /\ Reset(p)

ViewNext ==
    \/ \E p \in Sessions : \E pg \in VisPages : Quiet /\ StartRun(p, pg)
    \/ \E p \in Sessions :
          \/ LoadDataMemo(p) \/ LoadDataHit(p)
          \/ ReadClean(p) \/ ReadCleanFail(p)
          \/ ZonesMemo(p) \/ ZonesPresent(p) \/ ZonesRead(p)
          \/ DateInput(p) \/ DateInputFail(p)
          \/ AddPaymentName(p) \/ PaymentKeyError(p)
          \/ ApplyFilters(p) \/ FilterTypeError(p)
          \/ StopEmpty(p) \/ RenderTabs(p)
          \/ ViewFinish(p)

ViewSpec == ViewInit /\ [][ViewNext]_vars

----------------------------------------------------------------------------
(* Concurrent first builds: every session runs its script in a thread of   *)
(* its own, and the memo lock of one page's load_data does not hold back   *)
(* the load_data of another page.  df.to_parquet(CLEAN_PATH) creates the   *)
(* file when it opens it and completes it when it closes it; the steps of  *)
(* the other sessions fall in between.                                     *)

\* to_parquet opens CLEAN_PATH for writing: the path exists, the content
\* is not there yet
WriteOpen(p) ==
    /\ pc[p] = "write"
    /\ fstate' = [fstate EXCEPT !["clean"] = "partial"]
    /\ cleanData' = EmptyFrame
    /\ Goto(p, "writing")
    /\ UNCHANGED <<ui, remote, tripData, memo, zmemo, page, tbl, ret, netreq,
                   builds, alters>>

\* to_parquet has written the footer and closed the file
WriteClose(p) ==
    /\ pc[p] = "writing"
    /\ fstate' = [fstate EXCEPT !["clean"] = "full"]
    /\ cleanData' = ToParquet(tbl[p])
    /\ Goto(p, "read_clean")
    /\ UNCHANGED <<ui, remote, tripData, memo, zmemo, page, tbl, ret, netreq,
                   builds, alters>>

\* pd.read_parquet(CLEAN_PATH) over a file that is still being written: the
\* footer is missing, the reader raises
ReadCleanTorn(p) ==
    /\ pc[p] = "read_clean"
    /\ fstate["clean"] = "partial"
    /\ tbl' = [tbl EXCEPT ![p] = EmptyFrame]
    /\ End(p, Raised("unreadable", {}, 0))
    /\ UNCHANGED <<ui, remote, fstate, tripData, cleanData, memo, zmemo, page,
                   ret, netreq, builds, alters>>

RaceSources ==
    {Source(PipeSchema, rows) :
        rows \in {<<BaseRow>>, <<BaseRow, FastRow>>, <<ZeroDistRow, BaseRow>>}}

\* the raw files are in place, no artifact exists, no session has started
RaceInit ==
    /\ remote \in RaceSources
    /\ fstate = [f \in Files |-> IF f = "clean" THEN "absent" ELSE "full"]
    /\ tripData = remote
    /\ cleanData = EmptyFrame
    /\ pc = [p \in Racers |-> "idle"]
    /\ page = [p \in Racers |-> "Home"]
    /\ tbl = [p \in Racers |-> EmptyFrame]
    /\ ret = [p \in Racers |-> EmptyFrame]
    /\ ui = [p \in Racers |-> NoUi]
    /\ outcome = [p \in Racers |-> NoOutcome]
    /\ memo = [pg \in Pages |-> NoMemo]
    /\ zmemo = [pg \in ZonePages |-> FALSE]
    /\ netreq = [f \in {"trip", "zone"} |-> 0]
    /\ builds = 0
    /\ alters = 0

\* a session opens a builder page that no running session has open
RaceStart(p, pg) ==
    /\ \A q \in Racers : pc[q] # "idle" => page[q] # pg
    /\ StartRun(p, pg)

RaceNext ==
    \/ \E p \in Racers : \E pg \in Builders : RaceStart(p, pg)
    \/ \E p \in Racers :
          \/ LoadDataBuild(p) \/ LoadDataHit(p) \/ DownloadSkip(p)
          \/ ReadTable(p) \/ ReadParquetAll(p) \/ CleanOk(p)
          \/ WriteOpen(p) \/ WriteClose(p)
          \/ ReadClean(p) \/ ReadCleanTorn(p)

RaceSpec == RaceInit /\ [][RaceNext]_vars

----------------------------------------------------------------------------
(* Properties of the cleaning pipeline *)

\* session p has just persisted the artifact it built: row k of cleanData is
\* row tbl[p].rows[k].i of the raw table
Built(p) == pc[p] = "read_clean" /\ tbl[p].cols # {}

\* the positions of the raw rows that session p retained
Retained(p) == {tbl[p].rows[k].i : k \in DOMAIN tbl[p].rows}

\* the emitted row of raw row i
EmittedOf(p, i) ==
    cleanData.rows[CHOOSE k \in DOMAIN tbl[p].rows : tbl[p].rows[k].i = i]

\* the invariants of a clean trip record
CleanRecordOk(v) ==
    /\ v["tpep_pickup_datetime"] # NULL /\ v["tpep_dropoff_datetime"] # NULL
    /\ v["tpep_dropoff_datetime"] > v["tpep_pickup_datetime"]
    /\ v["trip_distance"] > 0 /\ v["trip_distance"] <= 200
    /\ v["fare_amount"] > 0 /\ v["fare_amount"] <= 500
    /\ v["total_amount"] > 0
    /\ v["trip_duration_minutes"][2] > 0
    /\ v["trip_duration_minutes"][1] >= v["trip_duration_minutes"][2]
    /\ v["trip_duration_minutes"][1] <= 300 * v["trip_duration_minutes"][2]
    /\ v["passenger_count"] >= 1 /\ v["passenger_count"] <= 9
    /\ v["tpep_pickup_datetime"] >= 0
    /\ v["tpep_pickup_datetime"] < 31 * 86400

\* C1: every row of the clean artifact, whichever builder copy wrote it, has
\* dropoff > pickup, 0 < distance <= 200, 0 < fare <= 500, total > 0,
\* 1 <= duration <= 300 minutes, 1 <= passengers <= 9 and a pickup within
\* January 2024.
C1_EmittedRowsValid ==
    fstate["clean"] = "full" =>
        \A k \in DOMAIN cleanData.rows : CleanRecordOk(cleanData.rows[k])

\* an artifact that holds a row while another raw row was dropped
C1_Witness ==
    /\ fstate["clean"] = "full"
    /\ Len(cleanData.rows) >= 1
    /\ Len(cleanData.rows) < Len(tripData.rows)

\* the claim's retention rule, stated on the raw cells (durations in seconds)
PassesAll(r) ==
    /\ \A c \in {"tpep_pickup_datetime", "tpep_dropoff_datetime", "PULocationID",
                 "DOLocationID", "fare_amount"} : r[c] # NULL
    /\ r["tpep_pickup_datetime"] >= 0 /\ r["tpep_pickup_datetime"] < 31 * 86400
    /\ r["tpep_dropoff_datetime"] > r["tpep_pickup_datetime"]
    /\ r["trip_distance"] # NULL /\ r["trip_distance"] > 0 /\ r["trip_distance"] <= 200
    /\ r["fare_amount"] > 0 /\ r["fare_amount"] <= 500
    /\ r["total_amount"] # NULL /\ r["total_amount"] > 0
    /\ r["tpep_dropoff_datetime"] - r["tpep_pickup_datetime"] >= 60
    /\ r["tpep_dropoff_datetime"] - r["tpep_pickup_datetime"] <= 300 * 60
    /\ r["passenger_count"] # NULL
    /\ r["passenger_count"] >= 1 /\ r["passenger_count"] <= 9

\* the raw positions that hold the given row
PositionsOf(row) ==
    {i \in DOMAIN tripData.rows :
        \A c \in tripData.cols : tripData.rows[i][c] = row[c]}

\* C2: a raw row is retained if and only if its five key cells are non-null
\* and it passes every filter; the row with distance 200, duration 300 min
\* and fare 500 and the row of exactly 1 minute are retained, the rows with
\* distance 0 or fare 0 are dropped.
C2_RetainedIffValid ==
    \A p \in Sessions : Built(p) =>
        /\ Retained(p) = {i \in DOMAIN tripData.rows : PassesAll(tripData.rows[i])}
        /\ Len(cleanData.rows) = Cardinality(Retained(p))
        /\ PositionsOf(BoundaryRow) \subseteq Retained(p)
        /\ PositionsOf(Trip(T0, 60, 1)) \subseteq Retained(p)
        /\ PositionsOf(ZeroDistRow) \cap Retained(p) = {}
        /\ PositionsOf(With2(BaseRow, "fare_amount", 0, "tip_amount", 5))
              \cap Retained(p) = {}

\* a build that kept the boundary row and dropped a zero-distance row
C2_Witness ==
    \E p \in Sessions :
        /\ Built(p)
        /\ PositionsOf(BoundaryRow) # {}
        /\ PositionsOf(BoundaryRow) \subseteq Retained(p)
        /\ PositionsOf(ZeroDistRow) # {}

\* C3: the speed of an emitted row is distance / (duration / 60), replaced
\* by null exactly when that is above 80: 10 miles in 15 min is 40, exactly
\* 80 stays, 100 miles in 10 min is null and its row is still emitted.
C3_SpeedNullAbove80 ==
    \A p \in Sessions : Built(p) =>
        /\ \A k \in DOMAIN cleanData.rows :
              LET v == cleanData.rows[k]
                  secs == v["tpep_dropoff_datetime"] - v["tpep_pickup_datetime"]
                  s == v["trip_speed_mph"]
              IN  IF v["trip_distance"] * 3600 > 80 * secs
                  THEN s = NaN
                  ELSE s[2] > 0 /\ s[1] * secs = v["trip_distance"] * 3600 * s[2]
        /\ \A i \in PositionsOf(BaseRow) :
              i \in Retained(p) /\ EmittedOf(p, i)["trip_speed_mph"] = <<40, 1>>
        /\ \A i \in PositionsOf(Trip(T0, 900, 20)) :
              i \in Retained(p) /\ EmittedOf(p, i)["trip_speed_mph"] = <<80, 1>>
        /\ \A i \in PositionsOf(FastRow) :
              i \in Retained(p) /\ EmittedOf(p, i)["trip_speed_mph"] = NaN

\* a build that emitted the 600 mph row and the 80 mph row
C3_Witness ==
    \E p \in Sessions :
        /\ Built(p)
        /\ PositionsOf(FastRow) # {}
        /\ PositionsOf(Trip(T0, 900, 20)) # {}
        /\ Len(cleanData.rows) = 2

\* C4 as claimed: tip_pct is tip / fare x 100 for fare > 0, and a raw row
\* with fare 0 and tip 5 comes out of the pipeline with tip_pct 0.
C4_FareZeroYieldsZero ==
    \A p \in Sessions : Built(p) =>
        /\ \A k \in DOMAIN cleanData.rows :
              LET v == cleanData.rows[k]
              IN  v["fare_amount"] > 0 /\ v["tip_amount"] # NULL =>
                     v["tip_pct"] = Rat(v["tip_amount"] * 100, v["fare_amount"])
        /\ \A i \in PositionsOf(With2(BaseRow, "fare_amount", 0, "tip_amount", 5)) :
              i \in Retained(p) /\ EmittedOf(p, i)["tip_pct"] = <<0, 1>>

\* C4 amended: every emitted row has fare > 0 and tip_pct = tip / fare x 100
\* (null when the tip is null), so fare 20 with tip 4 gives 20; the "else 0"
\* branch is never the value of an emitted row, because a raw row with
\* fare 0 is dropped by the fare filter and gets no tip_pct at all.
C4_TipPctOfEmittedRows ==
    \A p \in Sessions : Built(p) =>
        /\ \A k \in DOMAIN cleanData.rows :
              LET v == cleanData.rows[k]
                  t == v["tip_pct"]
              IN  /\ v["fare_amount"] > 0
                  /\ IF v["tip_amount"] = NULL THEN t = NaN
                     ELSE t[2] > 0 /\ t[1] * v["fare_amount"] = v["tip_amount"] * 100 * t[2]
        /\ \A i \in PositionsOf(BaseRow) :
              i \in Retained(p) /\ EmittedOf(p, i)["tip_pct"] = <<20, 1>>
        /\ \A i \in DOMAIN tripData.rows :
              tripData.rows[i]["fare_amount"] = 0 => i \notin Retained(p)

\* a build whose input held the fare 0 / tip 5 row and the fare 20 / tip 4 row
C4_Witness ==
    \E p \in Sessions :
        /\ Built(p)
        /\ PositionsOf(With2(BaseRow, "fare_amount", 0, "tip_amount", 5)) # {}
        /\ PositionsOf(BaseRow) # {}
        /\ Len(cleanData.rows) = 1

----------------------------------------------------------------------------
(* Properties of the cache layer, the validator and the fetcher *)

\* the positions of _build_clean_dataset
BuilderPcs == {"dl_trip", "dl_zone", "read_raw", "clean", "write"}

\* C5 as claimed: while the artifact exists no builder is running, what
\* load_data returned is the artifact's content, and the builder has run at
\* most once.
C5_BuilderRunsAtMostOnce ==
    /\ \A p \in Sessions : pc[p] \in BuilderPcs => fstate["clean"] = "absent"
    /\ \A p \in Sessions :
          ret[p] # EmptyFrame => ret[p] = LoadFrame(cleanData, page[p])
    /\ builds <= 1

\* C5 amended (script runs taken one at a time): a load_data call that finds
\* the artifact returns its content, from the file or from the memo, without
\* invoking the builder, without a request and without touching the raw
\* files, whatever happened to the raw source; the artifact, once written,
\* stays as written; the builder is invoked only while no artifact exists,
\* so failed builds can make it run more than once before that.
C5_ShortCircuit ==
    [][\A p \in Sessions :
          /\ (pc[p] = "load_data" /\ pc'[p] # "load_data" /\ fstate["clean"] # "absent") =>
                /\ pc'[p] \notin BuilderPcs
                /\ builds' = builds /\ netreq' = netreq
                /\ fstate' = fstate /\ tripData' = tripData /\ cleanData' = cleanData
                /\ pc'[p] = "read_clean" \/ ret'[p] = LoadFrame(cleanData, page[p])
          /\ (pc[p] = "read_clean" /\ pc'[p] # "read_clean") =>
                /\ builds' = builds /\ netreq' = netreq
                /\ fstate' = fstate /\ tripData' = tripData /\ cleanData' = cleanData
                /\ outcome'[p].kind = "error" \/ ret'[p] = LoadFrame(cleanData, page[p])
          /\ builds' # builds => fstate["clean"] = "absent"
          /\ fstate["clean"] = "full" =>
                fstate'["clean"] = "full" /\ cleanData' = cleanData]_vars

\* the Overview page got the artifact's rows after the raw trip file was
\* removed, the one build having been made earlier
C5_Witness ==
    \E p \in Sessions :
        /\ pc[p] = "loaded" /\ page[p] = "Overview" /\ outcome[p] = Ok
        /\ ret[p] = LoadFrame(cleanData, "Overview")
        /\ Len(ret[p].rows) >= 1
        /\ memo["Home"].has
        /\ fstate["trip"] = "absent" /\ alters >= 1
        /\ builds = 1

\* C6 as claimed: in every builder copy a build on a source that lacks
\* required columns ends in an error that names exactly the missing required
\* columns, raised before any row was filtered, and never reaches the end of
\* the cleaning.
C6_AbortNamesMissing ==
    [][\A p \in Sessions :
          /\ (pc[p] = "read_raw" /\ pc'[p] = "end" /\ fstate["trip"] = "full"
                /\ ~(required_cols \subseteq tripData.cols)) =>
                /\ outcome'[p].kind = "error"
                /\ outcome'[p].names = required_cols \ tripData.cols
                /\ outcome'[p].nfilt = 0
          /\ (pc[p] = "clean" /\ pc'[p] = "end") =>
                /\ outcome'[p].kind = "error"
                /\ outcome'[p].names = required_cols \ tbl[p].cols
                /\ outcome'[p].nfilt = 0
          /\ (pc[p] = "clean" /\ pc'[p] = "write") =>
                required_cols \subseteq tbl[p].cols]_vars

\* C7: a build that fails (transfer error, unreadable raw file, missing
\* column) ends the load_data call with the error, returns and memoizes
\* nothing, and leaves the artifact path empty as it was; the artifact is
\* written only by the step that follows the last derivation, with every
\* derived column present.
C7_FailedBuildWritesNothing ==
    [][/\ \A p \in Sessions :
             (pc[p] \in {"dl_trip", "dl_zone", "read_raw", "clean"} /\ pc'[p] = "end") =>
                /\ outcome'[p].kind = "error"
                /\ fstate["clean"] = "absent" /\ fstate'["clean"] = "absent"
                /\ cleanData' = cleanData
                /\ memo' = memo /\ ret' = ret
       /\ (fstate'["clean"] # fstate["clean"] \/ cleanData' # cleanData) =>
             \E q \in Sessions :
                /\ pc[q] = "write" /\ pc'[q] = "read_clean"
                /\ fstate'["clean"] = "full"
                /\ cleanData' = ToParquet(tbl[q])
                /\ derived_cols \subseteq cleanData'.cols
                /\ \A k \in DOMAIN cleanData'.rows :
                      cleanData'.rows[k]["tip_pct"] = TipPct(cleanData'.rows[k])]_vars

\* a second build attempt stopped by the schema check, no artifact on disk
C7_Witness ==
    \E p \in Sessions :
        /\ pc[p] = "end"
        /\ outcome[p].kind = "error" /\ outcome[p].type = "RuntimeError"
        /\ builds = 2
        /\ fstate["clean"] = "absent"

\* C8 as claimed: the artifact built from a source that has every required
\* column holds exactly the required columns, the optional columns the
\* source has, and the derived columns.
C8_ExactColumns ==
    (fstate["clean"] = "full" /\ required_cols \subseteq remote.cols) =>
        cleanData.cols =
            required_cols \cup (optional_cols \cap remote.cols) \cup derived_cols

\* C10: _download looks only at the existence of dest: over an existing
\* file, partial or not, it makes no request, changes no file and returns;
\* over an absent one it makes a request; and no step of a script removes or
\* replaces a partial file.
C10_DownloadDecidesOnExistence ==
    [][/\ \A p \in Sessions :
             (pc[p] \in DownloadPcs /\ pc'[p] # pc[p]) =>
                IF fstate[DownloadFile(pc[p])] # "absent"
                THEN /\ netreq' = netreq
                     /\ fstate' = fstate /\ tripData' = tripData
                     /\ pc'[p] = DownloadNext(pc[p])
                     /\ outcome' = outcome
                ELSE netreq'[DownloadFile(pc[p])] = netreq[DownloadFile(pc[p])] + 1
       /\ pc' # pc =>
             \A f \in {"trip", "zone"} :
                fstate[f] = "partial" => fstate'[f] = "partial"]_vars

\* a build has just skipped the download over a partial trip file
C10_Witness ==
    \E p \in Sessions :
        /\ pc[p] = "dl_zone"
        /\ fstate["trip"] = "partial"
        /\ netreq["trip"] = 1
        /\ builds = 2

----------------------------------------------------------------------------
(* Claims about the downloads and the memo *)

\* C11 as claimed: over any sequence of loads in which nobody removes a file,
\* failed attempts that are repeated later included, each of the two raw
\* sources is requested from the remote at most once.
C11_RequestedAtMostOnce ==
    alters = 0 => \A f \in {"trip", "zone"} : netreq[f] <= 1

\* C11: a source is requested only by a _download call that finds no file at
\* its destination, one request per call; a request that fails before the
\* destination is opened leaves no file, so the next load requests the source
\* again; once a file exists there, complete or partial, and as long as
\* nobody removes it, the file stays as it is and the source is never
\* requested again.
C11_RequestedOnlyWhileAbsent ==
    [][\A f \in {"trip", "zone"} :
          /\ netreq'[f] # netreq[f] =>
                /\ fstate[f] = "absent"
                /\ netreq'[f] = netreq[f] + 1
                /\ \E p \in Sessions :
                      /\ pc[p] \in DownloadPcs /\ DownloadFile(pc[p]) = f
                      /\ pc'[p] # pc[p]
                      /\ (fstate'[f] = "absent") =>
                            (pc'[p] = "end" /\ outcome'[p].kind = "error")
          /\ (alters' = 0 /\ fstate[f] # "absent") =>
                (fstate'[f] = fstate[f] /\ netreq'[f] = netreq[f])]_vars

\* the trip source was requested a second time after a refused request, and
\* the second request stored the file
C11_Witness ==
    \E p \in Sessions :
        /\ alters = 0
        /\ netreq["trip"] = 2
        /\ fstate["trip"] = "full"
        /\ pc[p] = "dl_zone"

----------------------------------------------------------------------------
(* Claims about the visualisation pages *)

\* the positions of a visualisation script after its loads have returned
ViewPcs == {"loaded", "payment", "filter", "check"}

\* C13 as claimed: after the cache layer has returned the dataset, no step of
\* the page script adds, removes or changes a column or a row of that object.
C13_LoadedDatasetUntouched ==
    [][\A p \in Sessions :
          (pc[p] \in ViewPcs /\ pc'[p] # "idle") => ret'[p] = ret[p]]_vars

\* C13: the memoized dataset and the artifact are never changed by a page
\* script, and the filter itself reads df only: filtered is made of rows of
\* df under their own index labels.  The object load_data returned is
\* changed once per run, before the filter: the script adds the column
\* payment_name to it, leaving every row and every other column as loaded.
C13_OnlyPaymentNameAdded ==
    [][\A p \in Sessions :
          (pc[p] \in ViewPcs /\ pc'[p] # "idle") =>
             /\ memo' = memo /\ zmemo' = zmemo
             /\ cleanData' = cleanData /\ fstate' = fstate
             /\ IF pc[p] = "payment" /\ pc'[p] = "filter"
                THEN /\ "payment_name" \notin ret[p].cols
                     /\ ret'[p].cols = ret[p].cols \cup {"payment_name"}
                     /\ Len(ret'[p].rows) = Len(ret[p].rows)
                     /\ \A k \in DOMAIN ret[p].rows : \A c \in ret[p].cols :
                           ret'[p].rows[k][c] = ret[p].rows[k][c]
                     /\ \A k \in DOMAIN ret[p].rows :
                           ret'[p].rows[k]["payment_name"] =
                              PaymentName(ret[p].rows[k]["payment_type"])
                ELSE ret'[p] = ret[p]
             /\ (pc[p] = "filter" /\ pc'[p] = "check") =>
                   \A j \in DOMAIN ui'[p].filtered :
                      /\ ui'[p].filtered[j].i \in DOMAIN ret[p].rows
                      /\ ui'[p].filtered[j].v = ret[p].rows[ui'[p].filtered[j].i]]_vars

\* a run has filtered a dataset with an unlisted payment code down to a part
\* of its rows: df carries payment_name, the memo of the page does not
C13_Witness ==
    \E p \in Sessions :
        /\ pc[p] = "check"
        /\ memo[page[p]].has
        /\ "payment_name" \in ret[p].cols
        /\ "payment_name" \notin memo[page[p]].df.cols
        /\ \E k \in DOMAIN ret[p].rows : ret[p].rows[k]["payment_name"] = NoName
        /\ ui[p].filtered # <<>>
        /\ Len(ui[p].filtered) < Len(ret[p].rows)

\* C14 as claimed: a Visualisations run whose load_data finds no artifact, or
\* whose load_zones finds no zone file, shows the instruction and halts
\* without raising, and changes nothing.
C14_AbsentFileHaltsRun ==
    [][\A p \in Sessions :
          (/\ page[p] = "Visualisations" /\ pc'[p] # pc[p]
           /\ \/ pc[p] = "load_data" /\ fstate["clean"] = "absent"
              \/ pc[p] = "load_zones" /\ fstate["zone"] = "absent") =>
             /\ pc'[p] = "end" /\ outcome'[p] = Halted
             /\ fstate' = fstate /\ netreq' = netreq /\ builds' = builds]_vars

\* C14: a Visualisations run never invokes the builder or a download and
\* creates no file.  Its load_data over an absent artifact, and its load_zones
\* over an absent zone file, show the instruction and halt the run without
\* raising, unless the memo of the page already holds the result of that
\* load: then the file is not looked for and the run goes on with the
\* memoized value.
C14_NotReadyHalts ==
    [][\A p \in Sessions :
          page'[p] = "Visualisations" =>
             /\ pc'[p] \notin BuilderPcs \cup DownloadPcs
             /\ (/\ page[p] = "Visualisations" /\ pc'[p] # pc[p]
                 /\ \/ pc[p] = "load_data" /\ fstate["clean"] = "absent"
                    \/ pc[p] = "load_zones" /\ fstate["zone"] = "absent") =>
                   /\ fstate' = fstate /\ netreq' = netreq /\ builds' = builds
                   /\ cleanData' = cleanData /\ tripData' = tripData
                   /\ memo' = memo /\ zmemo' = zmemo
                   /\ IF \/ pc[p] = "load_data" /\ memo["Visualisations"].has
                         \/ pc[p] = "load_zones" /\ zmemo["Visualisations"]
                      THEN /\ pc'[p] \in {"load_zones", "loaded"}
                           /\ outcome'[p].kind # "error"
                      ELSE /\ pc'[p] = "end"
                           /\ outcome'[p] = Halted]_vars

\* the Visualisations page was opened before any artifact was built: the run
\* has halted, nothing was built, requested or stored
C14_Witness ==
    \E p \in Sessions :
        /\ pc[p] = "end"
        /\ page[p] = "Visualisations"
        /\ outcome[p] = Halted
        /\ fstate = [f \in Files |-> "absent"]
        /\ builds = 0
        /\ netreq = [f \in {"trip", "zone"} |-> 0]

\* C15: a run whose filters leave zero rows shows the warning and stops
\* before any chart is drawn, and raises nothing: the filter is only reached
\* with a dataset that has rows (the caption divides by len(df)), the only
\* step after an empty filtered is the warning followed by st.stop, and
\* charts are drawn from a filtered that has rows.
C15_EmptyFilterWarns ==
    [][\A p \in Sessions :
          /\ pc'[p] \in {"filter", "check"} => Len(ret'[p].rows) > 0
          /\ (pc[p] = "filter" /\ pc'[p] = "check") =>
                /\ outcome'[p].kind # "error"
                /\ ~ui'[p].charts
          /\ (pc[p] = "check" /\ ui[p].filtered = <<>> /\ pc'[p] # pc[p]) =>
                /\ pc'[p] = "end"
                /\ outcome'[p] = Warned
                /\ ~ui'[p].charts
          /\ ui'[p].charts => ui'[p].filtered # <<>>]_vars

\* the hour slider alone has left no row of a dataset that has rows: every
\* payment type is selected, the dates are a pair; the run has stopped on
\* the warning
C15_Witness ==
    \E p \in Sessions :
        /\ pc[p] = "end"
        /\ outcome[p] = Warned
        /\ ret[p].rows # <<>>
        /\ ui[p].date_range = ATuple(<<min_date(ret[p]), max_date(ret[p])>>)
        /\ ui[p].selected_payments = ui[p].all_payment_types
        /\ ui[p].selected_payments # {}
        /\ ui[p].hour_range # <<0, 23>>
        /\ ui[p].filtered = <<>>
        /\ ~ui[p].charts

----------------------------------------------------------------------------
(* Further claims about the cleaning pipeline *)

\* C16 as claimed: of the ten rows of the scenario exactly the five valid
\* ones are persisted, and the pipeline appends exactly 5 derived columns.
C16_FiveRowsFiveColumns ==
    \A p \in Sessions :
        (Built(p) /\ tripData \in TenRowInputs) =>
            /\ Retained(p) = TenRowsValid
            /\ Len(cleanData.rows) = 5
            /\ Cardinality(cleanData.cols \ tripData.cols) = 5

\* C16: of the ten rows of the scenario (three with a fare outside (0, 500],
\* two with a distance outside (0, 200], five valid) exactly the five valid
\* ones are persisted, each with its raw cells, and the pipeline appends
\* exactly six derived columns: trip_duration_minutes, pickup_hour,
\* pickup_day_of_week, pickup_date, trip_speed_mph and tip_pct.
C16_FiveRowsSixColumns ==
    \A p \in Sessions :
        (Built(p) /\ tripData \in TenRowInputs) =>
            /\ Retained(p) = TenRowsValid
            /\ Len(cleanData.rows) = 5
            /\ \A i \in TenRowsValid : \A c \in tbl[p].cols \cap tripData.cols :
                  EmittedOf(p, i)[c] = tripData.rows[i][c]
            /\ cleanData.cols \ tripData.cols = derived_cols
            /\ Cardinality(cleanData.cols \ tripData.cols) = 6

\* the Overview page has built the artifact of a ten-row scenario whose bad
\* fares are 0, -5 and 501 and whose bad distances are 0 and 201
C16_Witness ==
    \E p \in Sessions :
        /\ Built(p)
        /\ page[p] = "Overview"
        /\ tripData = Source(PipeSchema, TenRows(0, 0 - 5, 501, 0, 201))
        /\ Len(cleanData.rows) = 5

\* C17: the persisted rows are the retained raw rows in the order of the raw
\* input: row k of the output carries the raw cells of the k-th retained raw
\* row, and the raw positions of the output rows increase with k.
C17_RawOrderKept ==
    \A p \in Sessions :
        Built(p) =>
            /\ Len(cleanData.rows) = Len(tbl[p].rows)
            /\ \A j, k \in DOMAIN cleanData.rows :
                  j < k => tbl[p].rows[j].i < tbl[p].rows[k].i
            /\ \A k \in DOMAIN cleanData.rows :
                  /\ tbl[p].rows[k].i \in DOMAIN tripData.rows
                  /\ \A c \in cleanData.cols \cap tripData.cols :
                        cleanData.rows[k][c] =
                           tripData.rows[tbl[p].rows[k].i][c]

\* the Visualizations page has built the artifact of a ten-row scenario: five
\* different rows, taken from raw positions 1, 3, 6, 7 and 10
C17_Witness ==
    \E p \in Sessions :
        /\ Built(p)
        /\ page[p] = "Visualizations"
        /\ tripData \in TenRowInputs
        /\ [k \in DOMAIN tbl[p].rows |-> tbl[p].rows[k].i] = <<1, 3, 6, 7, 10>>
        /\ cleanData.rows[1]["trip_distance"] = 10
        /\ cleanData.rows[5]["trip_distance"] = 1

\* C18: in every persisted row the duration is at least one minute, so the
\* quotient distance / (duration / 60) has a divisor above zero and the
\* value 0 of the other branch is never taken; and the speed is either null
\* or a value above 0 and at most 80.
C18_SpeedNullOrInRange ==
    \A p \in Sessions : Built(p) =>
        \A k \in DOMAIN cleanData.rows :
            LET v == cleanData.rows[k]
                d == v["trip_duration_minutes"]
                s == v["trip_speed_mph"]
            IN  /\ d # NaN /\ d[2] > 0 /\ d[1] >= d[2]
                /\ s # <<0, 1>>
                /\ \/ s = NaN
                   \/ s[2] > 0 /\ s[1] > 0 /\ s[1] <= 80 * s[2]
                /\ s # NaN => s = SpeedMph(v)

\* an artifact of two rows: one at 40 mph, one whose 600 mph were nulled
C18_Witness ==
    \E p \in Sessions :
        /\ Built(p)
        /\ PositionsOf(BaseRow) # {}
        /\ PositionsOf(FastRow) # {}
        /\ Len(cleanData.rows) = 2
        /\ \E k \in 1..2 : cleanData.rows[k]["trip_speed_mph"] = NaN
        /\ \E k \in 1..2 : cleanData.rows[k]["trip_speed_mph"] = <<40, 1>>

\* C19 as claimed: when the date widget hands back one date only, bare or as
\* a one-element tuple, the script takes it for start and end, the filter
\* does not raise, and filtered holds exactly the rows of that pickup date
\* (among those the hour and payment filters let through).
C19_SingleDateKeepsThatDay ==
    [][\A p \in Sessions :
          (/\ pc[p] = "filter" /\ pc'[p] # pc[p]
           /\ Len(ui[p].date_range.v) = 1) =>
             /\ ui[p].start_date = ADate(ui[p].date_range.v[1])
             /\ ui[p].end_date = ADate(ui[p].date_range.v[1])
             /\ pc'[p] = "check"
             /\ outcome'[p].kind # "error"
             /\ {ui'[p].filtered[j].i : j \in DOMAIN ui'[p].filtered} =
                   {k \in DOMAIN ret[p].rows :
                       /\ ret[p].rows[k]["pickup_date"] = ui[p].date_range.v[1]
                       /\ ret[p].rows[k]["pickup_hour"] >= ui[p].hour_range[1]
                       /\ ret[p].rows[k]["pickup_hour"] <= ui[p].hour_range[2]
                       /\ ret[p].rows[k]["payment_name"] \in
                             ui[p].selected_payments}]_vars

\* C20: whichever builder page persists the artifact of a raw source that
\* has every required column, each of the three builder copies run on that
\* source retains the raw rows of the same positions in the same order and
\* gives them the same values in every required and every derived column.
C20_BuilderCopiesAgree ==
    \A p \in Sessions :
        (Built(p) /\ required_cols \subseteq tripData.cols) =>
            \A pg \in Builders :
                LET df == CleanOf(pg, ReadFrame(tripData,
                                     IF pg = "Visualizations"
                                     THEN tripData.cols
                                     ELSE selected_cols(tripData.cols)))
                IN  /\ Len(df.rows) = Len(cleanData.rows)
                    /\ \A k \in DOMAIN df.rows :
                          /\ df.rows[k].i = tbl[p].rows[k].i
                          /\ \A c \in required_cols \cup derived_cols :
                                df.rows[k].v[c] = cleanData.rows[k][c]

\* the Visualizations page has built from a source whose first row is both
\* outside the month and without a fare, and whose second row is valid
C20_Witness ==
    \E p \in Sessions :
        /\ Built(p)
        /\ page[p] = "Visualizations"
        /\ Len(tripData.rows) = 2
        /\ tripData.rows[1]["fare_amount"] = NULL
        /\ tripData.rows[1]["tpep_pickup_datetime"] = MonthEnd
        /\ Retained(p) = {2}

\* C23 as claimed: with the widgets at their defaults (dates from the first
\* to the last pickup date, hours 0 to 23, every offered payment type
\* selected) filtered holds every row of the loaded dataset.
C23_DefaultsKeepEveryRow ==
    [][\A p \in Sessions :
          (/\ pc[p] = "filter" /\ pc'[p] # pc[p]
           /\ ui[p].date_range =
                 ATuple(<<min_date(ret[p]), max_date(ret[p])>>)
           /\ ui[p].hour_range = <<0, 23>>
           /\ ui[p].selected_payments = ui[p].all_payment_types) =>
             /\ pc'[p] = "check"
             /\ {ui'[p].filtered[j].i : j \in DOMAIN ui'[p].filtered} =
                   DOMAIN ret[p].rows]_vars

----------------------------------------------------------------------------
(* Claims about the files a Home run leaves behind *)

----------------------------------------------------------------------------
(* Claims about concurrent sessions *)

\* C21 as claimed: whenever a session has found the clean-artifact path and
\* reads it, the file holds the complete clean dataset: no read falls
\* between another session's opening and closing of the file.
C21_ReadsSeeCompleteArtifact ==
    [][\A p \in Racers :
          (pc[p] = "read_clean" /\ pc'[p] # pc[p]) =>
             /\ fstate["clean"] = "full"
             /\ outcome'[p].kind # "error"
             /\ ret'[p] = LoadFrame(cleanData, page[p])]_vars

====
